---------------------------- MODULE Spec2Model ----------------------------
(***************************************************************************)
(* teleinfo-nom: the Teleinfo frame decoder.                               *)
(*                                                                         *)
(* Text is modelled as it is in the program: the transport delivers bytes  *)
(* (u8, 0..255), the accumulator is a byte vector, String::from_utf8_lossy *)
(* turns it into a sequence of chars (Unicode scalar values), the nom      *)
(* parsers work on chars, and a returned String is turned back into bytes  *)
(* by as_bytes() when it is supplied as the next call's leftover.          *)
(***************************************************************************)
EXTENDS Integers, Sequences, FiniteSets, TLC

----------------------------------------------------------------------------
(* Characters named in the source *)
STX == 2        \* '\u{02}'
ETX == 3        \* '\u{03}'
HT == 9         \* '\t'
LF == 10        \* '\u{0a}'
CR == 13        \* '\u{0d}'
SP == 32        \* ' '
REPLACEMENT == 65533   \* U+FFFD, what from_utf8_lossy puts for invalid bytes
BUF_LEN == 200  \* vec![0; 200]: the most one read can deliver

Min(a, b) == IF a < b THEN a ELSE b
Drop(s, n) == SubSeq(s, n + 1, Len(s))
Take(s, n) == SubSeq(s, 1, n)
IsPrefix(p, s) == Len(p) <= Len(s) /\ Take(s, Len(p)) = p

\* index of the first occurrence of c in s at or after i, 0 when there is
\* none
find_from(s, c, i) ==
    LET hits == {k \in i..Len(s) : s[k] = c}
    IN  IF hits = {} THEN 0
        ELSE CHOOSE k \in hits : \A j \in hits : k <= j
find(s, c) == find_from(s, c, 1)

----------------------------------------------------------------------------
(* String::from_utf8_lossy and str::as_bytes (std)                          *)

IsCont(b) == b >= 128 /\ b <= 191
\* safe_get: the byte at i, 0 past the end
ByteAt(bs, i) == IF i <= Len(bs) THEN bs[i] ELSE 0

\* the second byte a 3- or 4-byte lead admits
SecondOk(b0, b1) ==
    \/ b0 = 224 /\ b1 >= 160 /\ b1 <= 191
    \/ b0 >= 225 /\ b0 <= 236 /\ IsCont(b1)
    \/ b0 = 237 /\ b1 >= 128 /\ b1 <= 159
    \/ b0 >= 238 /\ b0 <= 239 /\ IsCont(b1)
    \/ b0 = 240 /\ b1 >= 144 /\ b1 <= 191
    \/ b0 >= 241 /\ b0 <= 243 /\ IsCont(b1)
    \/ b0 = 244 /\ b1 >= 128 /\ b1 <= 143

\* one decoding step at the head of bs: <<char, number of bytes consumed>>;
\* a maximal invalid prefix becomes one U+FFFD
DecodeStep(bs) ==
    LET b0 == bs[1]
        b1 == ByteAt(bs, 2)
        b2 == ByteAt(bs, 3)
        b3 == ByteAt(bs, 4)
    IN  IF b0 < 128 THEN <<b0, 1>>
        ELSE IF b0 >= 194 /\ b0 <= 223 THEN
            IF IsCont(b1) THEN <<(b0 % 32) * 64 + (b1 % 64), 2>>
            ELSE <<REPLACEMENT, 1>>
        ELSE IF b0 >= 224 /\ b0 <= 239 THEN
            IF ~SecondOk(b0, b1) THEN <<REPLACEMENT, 1>>
            ELSE IF ~IsCont(b2) THEN <<REPLACEMENT, 2>>
            ELSE <<(b0 % 16) * 4096 + (b1 % 64) * 64 + (b2 % 64), 3>>
        ELSE IF b0 >= 240 /\ b0 <= 244 THEN
            IF ~SecondOk(b0, b1) THEN <<REPLACEMENT, 1>>
            ELSE IF ~IsCont(b2) THEN <<REPLACEMENT, 2>>
            ELSE IF ~IsCont(b3) THEN <<REPLACEMENT, 3>>
            ELSE <<(b0 % 8) * 262144 + (b1 % 64) * 4096 + (b2 % 64) * 64
                    + (b3 % 64), 4>>
        ELSE <<REPLACEMENT, 1>>

\* the decoding of bs, step after step
RECURSIVE decode_steps(_)
decode_steps(bs) ==
    IF bs = <<>> THEN <<>>
    ELSE LET st == DecodeStep(bs)
         IN  <<st[1]>> \o decode_steps(Drop(bs, st[2]))

\* a byte of the second half of bs at which a decoding step begins whatever
\* precedes it. A step takes, after its first byte, continuation bytes only,
\* at most three of them, and a step that begins with a continuation byte
\* takes that byte alone: so a step begins at every byte that is not a
\* continuation byte, and at the byte that follows three continuation bytes.
DecodeCut(bs) ==
    LET h == (Len(bs) \div 2) + 1
    IN  IF ~IsCont(bs[h]) THEN h
        ELSE IF ~IsCont(bs[h + 1]) THEN h + 1
        ELSE IF ~IsCont(bs[h + 2]) THEN h + 2
        ELSE h + 3

\* String::from_utf8_lossy: the steps of decode_steps; an input of more
\* than 8 bytes is decoded as its two parts on either side of DecodeCut,
\* which keeps the evaluation shallow
RECURSIVE from_utf8_lossy(_)
from_utf8_lossy(bs) ==
    IF Len(bs) <= 8 THEN decode_steps(bs)
    ELSE from_utf8_lossy(Take(bs, DecodeCut(bs) - 1))
         \o from_utf8_lossy(Drop(bs, DecodeCut(bs) - 1))

\* the UTF-8 encoding of one char
EncodeChar(c) ==
    IF c < 128 THEN <<c>>
    ELSE IF c < 2048 THEN <<192 + (c \div 64), 128 + (c % 64)>>
    ELSE IF c < 65536 THEN
        <<224 + (c \div 4096), 128 + ((c \div 64) % 64), 128 + (c % 64)>>
    ELSE <<240 + (c \div 262144), 128 + ((c \div 4096) % 64),
           128 + ((c \div 64) % 64), 128 + (c % 64)>>

\* str::as_bytes: the encodings of the chars, one after the other (a long
\* string by halves)
RECURSIVE as_bytes(_)
as_bytes(s) ==
    IF s = <<>> THEN <<>>
    ELSE IF Len(s) = 1 THEN EncodeChar(s[1])
    ELSE as_bytes(Take(s, Len(s) \div 2)) \o as_bytes(Drop(s, Len(s) \div 2))

----------------------------------------------------------------------------
(* nom: results and the primitive parsers the source uses.                  *)
(* st is "Ok", "Error" (nom::Err::Error), "Incomplete" (nom::Err::Incomplete)*)
(* or "Panic" (an unwrap() inside a parser aborted the thread).             *)

Ok(rest, out) == [st |-> "Ok", rest |-> rest, out |-> out]
Fail(kind) == [st |-> kind, rest |-> <<>>, out |-> <<>>]

\* bytes::complete::tag
tag(t, input) ==
    IF IsPrefix(t, input) THEN Ok(Drop(input, Len(t)), t) ELSE Fail("Error")

\* character::complete::char
char(c, input) ==
    IF input # <<>> /\ Head(input) = c THEN Ok(Tail(input), c)
    ELSE Fail("Error")

\* character::complete::anychar
anychar(input) ==
    IF input # <<>> THEN Ok(Tail(input), Head(input)) ELSE Fail("Error")

\* bytes::complete::take_until, of a one-char pattern
take_until(c, input) ==
    LET i == find(input, c)
    IN  IF i = 0 THEN Fail("Error")
        ELSE Ok(Drop(input, i - 1), Take(input, i - 1))

\* bytes::streaming::take_until, of a one-char pattern
stream_take_until(c, input) ==
    LET i == find(input, c)
    IN  IF i = 0 THEN Fail("Incomplete")
        ELSE Ok(Drop(input, i - 1), Take(input, i - 1))

\* branch::alt of two parsers, given their results on the same input: the
\* second is taken when the first ends in Error
alt(r1, r2) == IF r1.st = "Error" THEN r2 ELSE r1

\* branch::alt over tag(..) alternatives: the first literal, in the order
\* written, that is a prefix of the input
RECURSIVE alt_tag(_, _)
alt_tag(tags, input) ==
    IF tags = <<>> THEN Fail("Error")
    ELSE alt(tag(Head(tags), input), alt_tag(Tail(tags), input))

\* sequence::tuple: the parsers in turn, each on what the one before left; out
\* is the tuple of their outputs. tuple(input) is the empty tuple before the
\* first parser; push adds the result r of the next parser; then_X(s) runs
\* parser X after the parsers that gave s.
tuple(input) == Ok(input, <<>>)
push(outs, r) == IF r.st = "Ok" THEN Ok(r.rest, Append(outs, r.out)) ELSE Fail(r.st)
then_tag(s, t) == IF s.st = "Ok" THEN push(s.out, tag(t, s.rest)) ELSE s
then_char(s, c) == IF s.st = "Ok" THEN push(s.out, char(c, s.rest)) ELSE s
then_anychar(s) == IF s.st = "Ok" THEN push(s.out, anychar(s.rest)) ELSE s
then_take_until(s, c) ==
    IF s.st = "Ok" THEN push(s.out, take_until(c, s.rest)) ELSE s
then_stream_take_until(s, c) ==
    IF s.st = "Ok" THEN push(s.out, stream_take_until(c, s.rest)) ELSE s

----------------------------------------------------------------------------
(* parser/tags.rs *)

\* parser_tag_legacy_1: the literal tags of its alt, in source order
parser_tag_legacy_1_tags ==
    << <<65, 68, 67, 79>>,                                \* "ADCO"
       <<79, 80, 84, 65, 82, 73, 70>>,                    \* "OPTARIF"
       <<73, 83, 79, 85, 83, 67>>,                        \* "ISOUSC"
       <<80, 69, 74, 80>>,                                \* "PEJP"
       <<80, 84, 69, 67>>,                                \* "PTEC"
       <<68, 69, 77, 65, 73, 78>>,                        \* "DEMAIN"
       <<73, 73, 78, 83, 84>>,                            \* "IINST"
       <<73, 73, 78, 83, 84, 49>>,                        \* "IINST1"
       <<73, 73, 78, 83, 84, 50>>,                        \* "IINST2"
       <<73, 73, 78, 83, 84, 51>>,                        \* "IINST3"
       <<65, 68, 80, 83>>,                                \* "ADPS"
       <<73, 77, 65, 88>>,                                \* "IMAX"
       <<73, 77, 65, 88, 49>>,                            \* "IMAX1"
       <<73, 77, 65, 88, 50>>,                            \* "IMAX2"
       <<73, 77, 65, 88, 51>>,                            \* "IMAX3"
       <<80, 65, 80, 80>>,                                \* "PAPP"
       <<80, 77, 65, 88>>,                                \* "PMAX"
       <<72, 72, 80, 72, 67>>,                            \* "HHPHC"
       <<77, 79, 84, 68, 69, 84, 65, 84>>,                \* "MOTDETAT"
       <<80, 80, 79, 84>> >>                              \* "PPOT"

\* parser_tag_legacy_2: the literal tags of its alt, in source order
parser_tag_legacy_2_tags ==
    << <<66, 65, 83, 69>>,                                \* "BASE"
       <<72, 67, 72, 67>>,                                \* "HCHC"
       <<72, 67, 72, 80>>,                                \* "HCHP"
       <<69, 74, 80, 72, 78>>,                            \* "EJPHN"
       <<69, 74, 80, 72, 80, 77>>,                        \* "EJPHPM"
       <<66, 66, 82, 72, 67, 74, 66>>,                    \* "BBRHCJB"
       <<66, 66, 82, 72, 80, 74, 66>>,                    \* "BBRHPJB"
       <<66, 66, 82, 72, 67, 74, 87>>,                    \* "BBRHCJW"
       <<66, 66, 82, 72, 80, 74, 87>>,                    \* "BBRHPJW"
       <<66, 66, 82, 72, 67, 74, 82>>,                    \* "BBRHCJR"
       <<66, 66, 82, 72, 80, 74, 82>> >>                  \* "BBRHPJR"

\* parser_tag_legacy_3: the literal tags of its alt, in source order
parser_tag_legacy_3_tags ==
    << <<65, 68, 73, 82, 49>>,                            \* "ADIR1"
       <<65, 68, 73, 82, 50>>,                            \* "ADIR2"
       <<65, 68, 73, 82, 51>> >>                          \* "ADIR3"

\* parser_tag_standard_1: the literal tags of its alt, in source order
parser_tag_standard_1_tags ==
    << <<65, 68, 83, 67>>,                                \* "ADSC"
       <<86, 84, 73, 67>>,                                \* "VTIC"
       <<78, 71, 84, 70>>,                                \* "NGTF"
       <<76, 84, 65, 82, 70>>,                            \* "LTARF"
       <<69, 65, 83, 84>>,                                \* "EAST"
       <<69, 65, 83, 70, 48, 49>>,                        \* "EASF01"
       <<69, 65, 83, 70, 48, 50>>,                        \* "EASF02"
       <<69, 65, 83, 70, 48, 51>>,                        \* "EASF03"
       <<69, 65, 83, 70, 48, 52>>,                        \* "EASF04"
       <<69, 65, 83, 70, 48, 53>>,                        \* "EASF05"
       <<69, 65, 83, 70, 48, 54>>,                        \* "EASF06"
       <<69, 65, 83, 70, 48, 55>>,                        \* "EASF07"
       <<69, 65, 83, 70, 48, 56>>,                        \* "EASF08"
       <<69, 65, 83, 70, 48, 57>>,                        \* "EASF09"
       <<69, 65, 83, 70, 49, 48>>,                        \* "EASF10"
       <<69, 65, 83, 68, 48, 49>>,                        \* "EASD01"
       <<69, 65, 83, 68, 48, 50>>,                        \* "EASD02"
       <<69, 65, 83, 68, 48, 51>>,                        \* "EASD03"
       <<69, 65, 83, 68, 48, 52>>,                        \* "EASD04"
       <<69, 65, 73, 84>> >>                              \* "EAIT"

\* parser_tag_standard_2: the literal tags of its alt, in source order
parser_tag_standard_2_tags ==
    << <<65, 68, 83, 67>>,                                \* "ADSC"
       <<69, 82, 81, 49>>,                                \* "ERQ1"
       <<69, 82, 81, 50>>,                                \* "ERQ2"
       <<69, 82, 81, 51>>,                                \* "ERQ3"
       <<69, 82, 81, 52>>,                                \* "ERQ4"
       <<73, 82, 77, 83, 49>>,                            \* "IRMS1"
       <<73, 82, 77, 83, 50>>,                            \* "IRMS2"
       <<73, 82, 77, 83, 51>>,                            \* "IRMS3"
       <<85, 82, 77, 83, 49>>,                            \* "URMS1"
       <<85, 82, 77, 83, 50>>,                            \* "URMS2"
       <<85, 82, 77, 83, 51>>,                            \* "URMS3"
       <<80, 82, 69, 70>>,                                \* "PREF"
       <<80, 67, 79, 85, 80>>,                            \* "PCOUP"
       <<83, 73, 78, 83, 84, 83, 49>>,                    \* "SINSTS1"
       <<83, 73, 78, 83, 84, 83, 50>>,                    \* "SINSTS2"
       <<83, 73, 78, 83, 84, 83, 51>>,                    \* "SINSTS3"
       <<83, 73, 78, 83, 84, 83>>,                        \* "SINSTS"
       <<83, 73, 78, 83, 84, 73>>,                        \* "SINSTI"
       <<83, 84, 71, 69>>,                                \* "STGE"
       <<77, 83, 71, 49>>,                                \* "MSG1"
       <<77, 83, 71, 50>> >>                              \* "MSG2"

\* parser_tag_standard_3: the literal tags of its alt, in source order
parser_tag_standard_3_tags ==
    << <<65, 68, 83, 67>>,                                \* "ADSC"
       <<80, 82, 77>>,                                    \* "PRM"
       <<82, 69, 76, 65, 73, 83>>,                        \* "RELAIS"
       <<78, 84, 65, 82, 70>>,                            \* "NTARF"
       <<78, 74, 79, 85, 82, 70, 43, 49>>,                \* "NJOURF+1"
       <<78, 74, 79, 85, 82, 70>>,                        \* "NJOURF"
       <<80, 74, 79, 85, 82, 70, 43, 49>>,                \* "PJOURF+1"
       <<80, 80, 79, 73, 78, 84, 69>> >>                  \* "PPOINTE"

\* parser_tag_standard_horodate_1: the literal tags of its alt, in source order
parser_tag_standard_horodate_1_tags ==
    << <<68, 65, 84, 69>>,                                \* "DATE"
       <<83, 77, 65, 88, 83, 78, 49, 45, 49>>,            \* "SMAXSN1-1"
       <<83, 77, 65, 88, 83, 78, 50, 45, 49>>,            \* "SMAXSN2-1"
       <<83, 77, 65, 88, 83, 78, 51, 45, 49>>,            \* "SMAXSN3-1"
       <<83, 77, 65, 88, 83, 78, 45, 49>>,                \* "SMAXSN-1"
       <<83, 77, 65, 88, 83, 78, 49>>,                    \* "SMAXSN1"
       <<83, 77, 65, 88, 83, 78, 50>>,                    \* "SMAXSN2"
       <<83, 77, 65, 88, 83, 78, 51>>,                    \* "SMAXSN3"
       <<83, 77, 65, 88, 83, 78>>,                        \* "SMAXSN"
       <<83, 77, 65, 88, 73, 78, 45, 49>>,                \* "SMAXIN-1"
       <<83, 77, 65, 88, 73, 78>>,                        \* "SMAXIN"
       <<67, 67, 65, 83, 78, 45, 49>>,                    \* "CCASN-1"
       <<67, 67, 65, 83, 78>>,                            \* "CCASN"
       <<67, 67, 65, 73, 78, 45, 49>>,                    \* "CCAIN-1"
       <<67, 67, 65, 73, 78>>,                            \* "CCAIN"
       <<85, 77, 79, 89, 49>>,                            \* "UMOY1"
       <<85, 77, 79, 89, 50>>,                            \* "UMOY2"
       <<85, 77, 79, 89, 51>>,                            \* "UMOY3"
       <<68, 80, 77, 49>>,                                \* "DPM1"
       <<70, 80, 77, 49>>,                                \* "FPM1"
       <<68, 80, 77, 50>> >>                              \* "DPM2"

\* parser_tag_standard_horodate_2: the literal tags of its alt, in source order
parser_tag_standard_horodate_2_tags ==
    << <<70, 80, 77, 50>>,                                \* "FPM2"
       <<68, 80, 77, 51>>,                                \* "DPM3"
       <<70, 80, 77, 51>> >>                              \* "FPM3"

parser_tag_legacy_1(input) == alt_tag(parser_tag_legacy_1_tags, input)
parser_tag_legacy_2(input) == alt_tag(parser_tag_legacy_2_tags, input)
parser_tag_legacy_3(input) == alt_tag(parser_tag_legacy_3_tags, input)

parser_tag_legacy(input) ==
    alt(parser_tag_legacy_1(input),
        alt(parser_tag_legacy_2(input), parser_tag_legacy_3(input)))

parser_tag_standard_1(input) == alt_tag(parser_tag_standard_1_tags, input)
parser_tag_standard_2(input) == alt_tag(parser_tag_standard_2_tags, input)
parser_tag_standard_3(input) == alt_tag(parser_tag_standard_3_tags, input)

parser_tag_standard(input) ==
    alt(parser_tag_standard_1(input),
        alt(parser_tag_standard_2(input), parser_tag_standard_3(input)))

parser_tag_standard_horodate_1(input) ==
    alt_tag(parser_tag_standard_horodate_1_tags, input)
parser_tag_standard_horodate_2(input) ==
    alt_tag(parser_tag_standard_horodate_2_tags, input)

parser_tag_standard_horodate(input) ==
    alt(parser_tag_standard_horodate_1(input),
        parser_tag_standard_horodate_2(input))

\* the three tag parsers as elements of a tuple
then_parser_tag_legacy(s) ==
    IF s.st = "Ok" THEN push(s.out, parser_tag_legacy(s.rest)) ELSE s
then_parser_tag_standard(s) ==
    IF s.st = "Ok" THEN push(s.out, parser_tag_standard(s.rest)) ELSE s
then_parser_tag_standard_horodate(s) ==
    IF s.st = "Ok" THEN push(s.out, parser_tag_standard_horodate(s.rest)) ELSE s

----------------------------------------------------------------------------
(* lib.rs: the data types *)

\* Option<TeleinfoDate>: None, or Some of {season, date, raw_value}; date is
\* the local date-time <<year, month, day, hour, minute, second>>
None == [some |-> FALSE, season |-> 0, date |-> <<>>, raw_value |-> <<>>]
TeleinfoDate(season, date, raw_value) ==
    [some |-> TRUE, season |-> season, date |-> date, raw_value |-> raw_value]

\* TeleinfoTuple: (tag, value, checksum char, Option<TeleinfoDate>)
TeleinfoTuple(t, value, cs, hd) ==
    [tag |-> t, value |-> value, cs |-> cs, hd |-> hd]

----------------------------------------------------------------------------
(* parser/mod.rs *)

\* the fold of calculate_checksum: the sum of the chars
RECURSIVE SumChars(_)
SumChars(s) == IF s = <<>> THEN 0 ELSE Head(s) + SumChars(Tail(s))

\* combinator::recognize: the output is the part of input the parser consumed
recognize(input, r) ==
    IF r.st = "Ok" THEN Ok(r.rest, Take(input, Len(input) - Len(r.rest))) ELSE r

\* get_beginning as it would be with the complete take_until, which fails
\* where the streaming one asks for more input
get_beginning_complete(input) ==
    LET s0 == tuple(input)
        s1 == then_take_until(s0, STX)
        s2 == then_tag(s1, <<STX>>)
    IN  recognize(input, s2)

get_beginning(input) ==
    LET s0 == tuple(input)
        s1 == then_stream_take_until(s0, STX)
        s2 == then_tag(s1, <<STX>>)
    IN  recognize(input, s2)

\* get_beginning as the first element of delimited
then_get_beginning(s) ==
    IF s.st = "Ok" THEN push(s.out, get_beginning(s.rest)) ELSE s

\* sequence::delimited: the output of the second of three parsers
delimited(t) == IF t.st = "Ok" THEN Ok(t.rest, t.out[2]) ELSE t

\* parser::get_message as it would be without get_beginning: the body is
\* whatever precedes the first 0x03
first_of_two(t) == IF t.st = "Ok" THEN Ok(t.rest, t.out[1]) ELSE t
parser_get_message_no_beginning(input) ==
    LET s0 == tuple(input)
        s1 == then_stream_take_until(s0, ETX)
        s2 == then_tag(s1, <<ETX>>)
    IN  first_of_two(s2)

\* parser::get_message: the body between the first 0x02 and the first 0x03
\* after it, and what follows that 0x03
parser_get_message(input) ==
    LET s0 == tuple(input)
        s1 == then_get_beginning(s0)
        s2 == then_stream_take_until(s1, ETX)
        s3 == then_tag(s2, <<ETX>>)
    IN  delimited(s3)

separator(mode) == IF mode = "Standard" THEN HT ELSE SP

parser_value_helper(input, mode) == take_until(separator(mode), input)
parser_value_legacy(input) == parser_value_helper(input, "Legacy")
parser_value_standard(input) == parser_value_helper(input, "Standard")
then_parser_value_legacy(s) ==
    IF s.st = "Ok" THEN push(s.out, parser_value_legacy(s.rest)) ELSE s
then_parser_value_standard(s) ==
    IF s.st = "Ok" THEN push(s.out, parser_value_standard(s.rest)) ELSE s

\* (_, tag, _, data, _, checksum, _) => (tag, data, checksum, None)
tuple_nohd(t) ==
    IF t.st = "Ok"
    THEN Ok(t.rest, TeleinfoTuple(t.out[2], t.out[4], t.out[6], None))
    ELSE t

\* the mapping of parser_dataset_standard_horodate as it would be if the
\* date were left out of the tuple
tuple_horodate_dropped(t) ==
    IF t.st = "Ok"
    THEN Ok(t.rest, TeleinfoTuple(t.out[2], t.out[6], t.out[8], None))
    ELSE t

\* (_, tag, _, date, _, data, _, checksum, _) => (tag, data, checksum, Some(date))
tuple_horodate(t) ==
    IF t.st = "Ok"
    THEN Ok(t.rest, TeleinfoTuple(t.out[2], t.out[6], t.out[8], t.out[4]))
    ELSE t

\* parser_dataset_legacy as it would be if a line whose checksum character is
\* not the computed one did not tokenize
checked_line(r) ==
    IF r.st = "Ok"
       /\ ((SumChars(r.out.tag \o <<SP>> \o r.out.value) % 64) + 32) # r.out.cs
    THEN Fail("Error")
    ELSE r
parser_dataset_legacy_checked(input) ==
    LET s0 == tuple(input)
        s1 == then_char(s0, LF)
        s2 == then_parser_tag_legacy(s1)
        s3 == then_char(s2, SP)
        s4 == then_parser_value_legacy(s3)
        s5 == then_char(s4, SP)
        s6 == then_anychar(s5)
        s7 == then_char(s6, CR)
    IN  checked_line(tuple_nohd(s7))

parser_dataset_legacy(input) ==
    LET s0 == tuple(input)
        s1 == then_char(s0, LF)
        s2 == then_parser_tag_legacy(s1)
        s3 == then_char(s2, separator("Legacy"))
        s4 == then_parser_value_legacy(s3)
        s5 == then_char(s4, separator("Legacy"))
        s6 == then_anychar(s5)
        s7 == then_char(s6, CR)
    IN  tuple_nohd(s7)

parser_dataset_standard_nohd(input) ==
    LET s0 == tuple(input)
        s1 == then_char(s0, LF)
        s2 == then_parser_tag_standard(s1)
        s3 == then_char(s2, separator("Standard"))
        s4 == then_parser_value_standard(s3)
        s5 == then_char(s4, separator("Standard"))
        s6 == then_anychar(s5)
        s7 == then_char(s6, CR)
    IN  tuple_nohd(s7)

\* alt((tag_no_case("h"), tag_no_case("e"), tag(" ")))
parser_horodate_season(input) ==
    IF input # <<>> /\ Head(input) \in {104, 72, 101, 69, SP}
    THEN Ok(Tail(input), <<Head(input)>>)
    ELSE Fail("Error")

IsDigit(c) == c >= 48 /\ c <= 57

RECURSIVE DigitRun(_)
DigitRun(s) ==
    IF s # <<>> /\ IsDigit(Head(s)) THEN 1 + DigitRun(Tail(s)) ELSE 0

\* character::complete::digit1 (n: the length of the leading run of digits)
digit1(input, n) ==
    IF n = 0 THEN Fail("Error") ELSE Ok(Drop(input, n), Take(input, n))
parser_date_verifier(input) == digit1(input, DigitRun(input))

\* the closure of verify: parser_date_verifier(s).unwrap() == ("", s); the
\* unwrap aborts when digit1 fails, that is when s does not start with a digit
date_verified(input, s, v) ==
    IF v.st # "Ok" THEN Fail("Panic")
    ELSE IF v.rest = <<>> /\ v.out = s THEN Ok(Drop(input, Len(s)), s)
    ELSE Fail("Error")

\* verify(take(12usize), ..)
parser_horodate_date(input) ==
    IF Len(input) < 12 THEN Fail("Error")
    ELSE date_verified(input, Take(input, 12),
                       parser_date_verifier(Take(input, 12)))

Num2(s, i) == (s[i] - 48) * 10 + (s[i + 1] - 48)
IsLeap(y) == y % 4 = 0 /\ (y % 100 # 0 \/ y % 400 = 0)
DaysInMonth(y, m) ==
    IF m \in {4, 6, 9, 11} THEN 30
    ELSE IF m = 2 THEN (IF IsLeap(y) THEN 29 ELSE 28)
    ELSE 31

\* the time zone of the process (the TZ the program runs under), which
\* chrono's Local reads
VARIABLE tz

\* the zones taken here: one without daylight saving time and two with it
LocalZones == {"UTC", "Europe/Paris", "America/New_York"}

\* day of the week of a date of the Gregorian calendar, 0 for Sunday
DayOfWeek(y, m, d) ==
    LET t == <<0, 3, 2, 5, 0, 3, 5, 1, 4, 6, 2, 4>>
        yy == IF m < 3 THEN y - 1 ELSE y
    IN  (yy + (yy \div 4) - (yy \div 100) + (yy \div 400) + t[m] + d) % 7
\* the last Sunday of a month, and the first Sunday on or after day k
LastSunday(y, m) == DaysInMonth(y, m) - DayOfWeek(y, m, DaysInMonth(y, m))
SundayFrom(y, m, k) == k + ((7 - DayOfWeek(y, m, k)) % 7)

\* the hour of local time, <<month, day, hour>>, that the zone skips when
\* daylight saving time begins in year y (<<>>: none)
SkippedHour(zone, y) ==
    IF zone = "Europe/Paris" THEN
        IF y >= 1981 THEN <<3, LastSunday(y, 3), 2>>
        ELSE IF y >= 1977 THEN <<4, SundayFrom(y, 4, 1), 2>>
        ELSE IF y = 1976 THEN <<3, 28, 1>>
        ELSE <<>>
    ELSE IF zone = "America/New_York" THEN
        IF y >= 2007 THEN <<3, SundayFrom(y, 3, 8), 2>>
        ELSE IF y >= 1987 THEN <<4, SundayFrom(y, 4, 1), 2>>
        ELSE IF y >= 1976 THEN <<4, LastSunday(y, 4), 2>>
        ELSE IF y = 1975 THEN <<2, 23, 2>>
        ELSE IF y = 1974 THEN <<1, 6, 2>>
        ELSE <<4, LastSunday(y, 4), 2>>
    ELSE <<>>

\* the hour of local time that the zone has twice when daylight saving time
\* ends in year y (<<>>: none)
RepeatedHour(zone, y) ==
    IF zone = "Europe/Paris" THEN
        IF y >= 1996 THEN <<10, LastSunday(y, 10), 2>>
        ELSE IF y >= 1979 THEN <<9, LastSunday(y, 9), 2>>
        ELSE IF y = 1978 THEN <<10, 1, 2>>
        ELSE IF y = 1977 THEN <<9, LastSunday(y, 9), 2>>
        ELSE IF y = 1976 THEN <<9, 26, 0>>
        ELSE <<>>
    ELSE IF zone = "America/New_York" THEN
        IF y >= 2007 THEN <<11, SundayFrom(y, 11, 1), 1>>
        ELSE <<10, LastSunday(y, 10), 1>>
    ELSE <<>>

\* TimeZone::from_local_datetime: the local time exists once ("Single"),
\* not at all ("None") or twice ("Ambiguous") in the zone. chrono decides by
\* the second: of a skipped hour HH, HH:00:00 is taken as existing (the
\* last instant before the change) and HH:00:01..HH:59:59 as skipped; of a
\* repeated hour HH, HH:00:00..HH:59:59 and also (HH+1):00:00, the second
\* that closes it, are taken as ambiguous.
from_local_datetime(zone, y, month, day, hour, minute, second) ==
    IF /\ <<month, day, hour>> = SkippedHour(zone, y)
       /\ ~(minute = 0 /\ second = 0)
    THEN "None"
    ELSE IF \/ <<month, day, hour>> = RepeatedHour(zone, y)
            \/ /\ <<month, day, hour - 1>> = RepeatedHour(zone, y)
               /\ minute = 0 /\ second = 0
    THEN "Ambiguous"
    ELSE "Single"

\* Local.datetime_from_str(date, "%y%m%d%H%M%S") on 12 digits: Ok with the
\* local date-time, or Err when the fields are out of range (chrono takes a
\* two-digit year below 70 as 20yy, and accepts second 60 as a leap second)
\* or when the local time does not exist, or exists twice, in the zone of
\* the process.
datetime_of(yy, month, day, hour, minute, second) ==
    IF /\ month >= 1 /\ month <= 12
       /\ day >= 1
       /\ day <= DaysInMonth(IF yy < 70 THEN 2000 + yy ELSE 1900 + yy, month)
       /\ hour <= 23 /\ minute <= 59 /\ second <= 60
       /\ from_local_datetime(tz, IF yy < 70 THEN 2000 + yy ELSE 1900 + yy,
                              month, day, hour, minute, second) = "Single"
    THEN Ok(<<>>, <<IF yy < 70 THEN 2000 + yy ELSE 1900 + yy,
                    month, day, hour, minute, second>>)
    ELSE Fail("Error")
datetime_from_str(date) ==
    datetime_of(Num2(date, 1), Num2(date, 3), Num2(date, 5),
                Num2(date, 7), Num2(date, 9), Num2(date, 11))

\* the Ok arm of parser_horodate: datetime_from_str(..).unwrap() aborts on Err
horodate_value(r, season, date, dt) ==
    IF dt.st # "Ok" THEN Fail("Panic")
    ELSE Ok(r, TeleinfoDate(Head(season), dt.out, season \o date))

horodate_match(t) ==
    IF t.st # "Ok" THEN t
    ELSE horodate_value(t.rest, t.out[1], t.out[2], datetime_from_str(t.out[2]))

then_parser_horodate_season(s) ==
    IF s.st = "Ok" THEN push(s.out, parser_horodate_season(s.rest)) ELSE s
then_parser_horodate_date(s) ==
    IF s.st = "Ok" THEN push(s.out, parser_horodate_date(s.rest)) ELSE s

parser_horodate(input) ==
    LET s0 == tuple(input)
        s1 == then_parser_horodate_season(s0)
        s2 == then_parser_horodate_date(s1)
    IN  horodate_match(s2)

then_parser_horodate(s) ==
    IF s.st = "Ok" THEN push(s.out, parser_horodate(s.rest)) ELSE s

parser_dataset_standard_horodate(input) ==
    LET s0 == tuple(input)
        s1 == then_char(s0, LF)
        s2 == then_parser_tag_standard_horodate(s1)
        s3 == then_char(s2, separator("Standard"))
        s4 == then_parser_horodate(s3)
        s5 == then_char(s4, separator("Standard"))
        s6 == then_parser_value_standard(s5)
        s7 == then_char(s6, separator("Standard"))
        s8 == then_anychar(s7)
        s9 == then_char(s8, CR)
    IN  tuple_horodate(s9)

\* parser_dataset_standard as it would be if the Standard grammar also took
\* the Legacy line
parser_dataset_standard_or_legacy(input) ==
    alt(alt(parser_dataset_standard_nohd(input),
            parser_dataset_standard_horodate(input)),
        parser_dataset_legacy(input))

parser_dataset_standard(input) ==
    alt(parser_dataset_standard_nohd(input),
        parser_dataset_standard_horodate(input))

\* multi::many1, given the result r of the line parser on input; v holds the
\* lines tokenized so far. An Error ends the run (it fails the run when no
\* line was tokenized), anything else that is not Ok is passed on.
many1_end(input, v, r) ==
    IF r.st = "Error" THEN (IF v = <<>> THEN Fail("Error") ELSE Ok(input, v))
    ELSE Fail(r.st)

\* many1_legacy as it would be if a line that does not tokenize failed the
\* whole run instead of ending it
RECURSIVE many1_legacy_all(_, _)
many1_legacy_all_step(input, v, r) ==
    IF r.st = "Ok" THEN
        IF r.rest = <<>> THEN Ok(r.rest, Append(v, r.out))
        ELSE many1_legacy_all(r.rest, Append(v, r.out))
    ELSE Fail(r.st)
many1_legacy_all(input, v) ==
    many1_legacy_all_step(input, v, parser_dataset_legacy(input))

\* many1(parser_dataset_legacy)
RECURSIVE many1_legacy(_, _)
many1_legacy_step(input, v, r) ==
    IF r.st = "Ok" THEN
        IF Len(r.rest) = Len(input) THEN Fail("Error")
        ELSE many1_legacy(r.rest, Append(v, r.out))
    ELSE many1_end(input, v, r)
many1_legacy(input, v) ==
    many1_legacy_step(input, v, parser_dataset_legacy(input))

\* many1(parser_dataset_standard)
RECURSIVE many1_standard(_, _)
many1_standard_step(input, v, r) ==
    IF r.st = "Ok" THEN
        IF Len(r.rest) = Len(input) THEN Fail("Error")
        ELSE many1_standard(r.rest, Append(v, r.out))
    ELSE many1_end(input, v, r)
many1_standard(input, v) ==
    many1_standard_step(input, v, parser_dataset_standard(input))

\* Ok((r, v)) => Ok((r, (v, mode))), Err(e) => Err(e)
with_mode(r, mode) ==
    IF r.st = "Ok" THEN Ok(r.rest, [lines |-> r.out, mode |-> mode]) ELSE r

parser_message_legacy(input) == with_mode(many1_legacy(input, <<>>), "Legacy")

parser_message_standard(input) ==
    with_mode(many1_standard(input, <<>>), "Standard")

parser_message(input) ==
    alt(parser_message_legacy(input), parser_message_standard(input))

\* calculate_checksum as it would be with the mask 0x1F
calculate_checksum_5bit(input) == (SumChars(input) % 32) + 32

\* ((fold(0 as u32, acc + c as u32) & 0x3F) as u8 + 0x20) as char, on an
\* input whose sum fits a u32 (every input the decoder meets within the
\* bounds of this model). & 0x3F keeps the sum modulo 64; the u8 is at most
\* 63, so adding 0x20 stays below 256.
calculate_checksum(input) == ((SumChars(input) % 64) % 256) + 32

\* The u32 accumulator of the fold, kept as the sums of the high and of
\* the low 16 bits of the chars so that no intermediate value leaves 32
\* bits. The chars are not negative, so the accumulator of the fold passes
\* 2^32 - 1 at some char iff the whole sum does; the sums are taken by
\* halves to keep the evaluation shallow on long inputs.
RECURSIVE HighSum(_, _, _)
HighSum(s, lo, hi) ==
    IF lo > hi THEN 0
    ELSE IF lo = hi THEN s[lo] \div 65536
    ELSE HighSum(s, lo, (lo + hi) \div 2) + HighSum(s, (lo + hi) \div 2 + 1, hi)
RECURSIVE LowSum(_, _, _)
LowSum(s, lo, hi) ==
    IF lo > hi THEN 0
    ELSE IF lo = hi THEN s[lo] % 65536
    ELSE LowSum(s, lo, (lo + hi) \div 2) + LowSum(s, (lo + hi) \div 2 + 1, hi)

\* acc + (c as u32) overflows the u32 at some char of input
fold_overflows(input) ==
    HighSum(input, 1, Len(input)) + (LowSum(input, 1, Len(input)) \div 65536)
        >= 65536

\* what calculate_checksum does on any input, build by build: where the
\* fold overflows, a build with overflow checks (the default of a debug
\* build) panics and a build without them wraps, which keeps the low six
\* bits of the sum
calculate_checksum_builds(input) ==
    IF fold_overflows(input)
    THEN {[panic |-> TRUE, char |-> 0],
          [panic |-> FALSE,
           char |-> ((LowSum(input, 1, Len(input)) % 64) % 256) + 32]}
    ELSE {[panic |-> FALSE,
           char |-> ((LowSum(input, 1, Len(input)) % 64) % 256) + 32]}

\* validate as it would be if Legacy also counted a trailing separator
validate_trailing_sep(mode, values) ==
    calculate_checksum(values.tag \o <<separator(mode)>>
                       \o (IF values.hd.some
                           THEN values.hd.raw_value \o <<separator(mode)>>
                           ELSE <<>>)
                       \o values.value \o <<separator(mode)>>) = values.cs

\* validate as it would be if the horodate were left out of the checksum input
validate_no_horodate(mode, values) ==
    calculate_checksum(
        values.tag \o <<separator(mode)>> \o values.value
        \o (IF mode = "Legacy" THEN <<>> ELSE <<separator(mode)>>))
    = values.cs

validate(mode, values) ==
    IF ~values.hd.some
    THEN calculate_checksum(
             values.tag \o <<separator(mode)>> \o values.value
             \o (IF mode = "Legacy" THEN <<>> ELSE <<separator(mode)>>))
         = values.cs
    ELSE calculate_checksum(
             values.tag \o <<separator(mode)>>
             \o values.hd.raw_value \o <<separator(mode)>>
             \o values.value \o <<separator(mode)>>)
         = values.cs

validate_message(mode, message) ==
    \A i \in 1..Len(message) : validate(mode, message[i])

----------------------------------------------------------------------------
(* lib.rs: building the TeleinfoMessage *)

\* HashMap::insert as it would be if an entry already there were kept
Insert_keep_first(values, key, val) ==
    [k \in (DOMAIN values) \cup {key} |->
        IF k \in DOMAIN values THEN values[k] ELSE val]

\* HashMap::insert
Insert(values, key, val) ==
    [k \in (DOMAIN values) \cup {key} |-> IF k = key THEN val ELSE values[k]]

RECURSIVE insert_lines(_, _)
insert_lines(values, lines) ==
    IF lines = <<>> THEN values
    ELSE insert_lines(
            Insert(values, Head(lines).tag,
                   [value |-> Head(lines).value, horodate |-> Head(lines).hd]),
            Tail(lines))

EmptyMap == [k \in {} |-> None]

parsed_vector_to_values(lines) == insert_lines(EmptyMap, lines)

\* the TeleinfoMessage build_message makes of (r, (lines, mode))
message_of(r, lines, mode) ==
    [values |-> parsed_vector_to_values(lines),
     mode |-> mode,
     valid |-> r = <<>> /\ validate_message(mode, lines)]

\* parser_message(raw_message).unwrap(): aborts on Err
unwrap_message(p) ==
    IF p.st # "Ok" THEN Fail("Panic")
    ELSE Ok(<<>>, message_of(p.rest, p.out.lines, p.out.mode))

\* build_message as it would be without r.is_empty() in valid
unwrap_message_ignoring_rest(p) ==
    IF p.st # "Ok" THEN Fail("Panic")
    ELSE Ok(<<>>, message_of(<<>>, p.out.lines, p.out.mode))
build_message_ignoring_rest(raw_message) ==
    unwrap_message_ignoring_rest(parser_message(raw_message))

build_message(raw_message) == unwrap_message(parser_message(raw_message))


----------------------------------------------------------------------------
(* lib.rs: the accessors of TeleinfoMessage. A String is the sequence of   *)
(* its chars; a result is Ok(<<>>, value) or Fail("Panic") when an         *)
(* unwrap() or a slice aborts.                                             *)

\* get_value: Option<&TeleinfoValue> as a sequence of at most one element
get_value(m, key) ==
    IF key \in DOMAIN m.values THEN <<m.values[key]>> ELSE <<>>

\* contains_key("OPTARIF")
get_message_type(m) ==
    IF m.mode = "Standard" THEN "Normal"
    ELSE IF <<79, 80, 84, 65, 82, 73, 70>> \in DOMAIN m.values THEN "Normal"
    ELSE "Short"

\* contains_key("IINST1") in Legacy, contains_key("SINSTS1") in Standard
get_meter_type(m) ==
    IF m.mode = "Legacy"
    THEN IF <<73, 73, 78, 83, 84, 49>> \in DOMAIN m.values
         THEN "TriPhase" ELSE "MonoPhase"
    ELSE IF <<83, 73, 78, 83, 84, 83, 49>> \in DOMAIN m.values
         THEN "TriPhase" ELSE "MonoPhase"

\* the match of get_current_index_legacy: PTEC value |-> index name
current_index_of_ptec ==
    { <<<<84, 72, 46, 46>>, <<66, 65, 83, 69>>>>, \* TH.. => BASE
      <<<<72, 67, 46, 46>>, <<72, 67, 72, 67>>>>, \* HC.. => HCHC
      <<<<72, 80, 46, 46>>, <<72, 67, 72, 80>>>>, \* HP.. => HCHP
      <<<<72, 78, 46, 46>>, <<69, 74, 80, 72, 78>>>>, \* HN.. => EJPHN
      <<<<80, 77, 46, 46>>, <<69, 74, 80, 80, 77>>>>, \* PM.. => EJPPM
      <<<<72, 67, 74, 66>>, <<66, 66, 82, 72, 67, 74, 66>>>>, \* HCJB => BBRHCJB
      <<<<72, 67, 74, 87>>, <<66, 66, 82, 72, 67, 74, 87>>>>, \* HCJW => BBRHCJW
      <<<<72, 67, 74, 82>>, <<66, 66, 82, 72, 67, 74, 82>>>>, \* HCJR => BBRHCJR
      <<<<72, 80, 74, 66>>, <<66, 66, 82, 72, 80, 74, 66>>>>, \* HPJB => BBRHPJB
      <<<<72, 80, 74, 87>>, <<66, 66, 82, 72, 80, 74, 87>>>>, \* HPJW => BBRHPJW
      <<<<72, 80, 74, 82>>, <<66, 66, 82, 72, 80, 74, 82>>>> } \* HPJR => BBRHPJR

\* get_value("PTEC").unwrap().value matched against the table, else "BASE"
get_current_index_legacy(m) ==
    LET ptec == get_value(m, <<80, 84, 69, 67>>)
    IN  IF ptec = <<>> THEN Fail("Panic")
        ELSE IF \E e \in current_index_of_ptec : e[1] = ptec[1].value
        THEN Ok(<<>>, (CHOOSE e \in current_index_of_ptec :
                          e[1] = ptec[1].value)[2])
        ELSE Ok(<<>>, <<66, 65, 83, 69>>)

\* format!("EASF{}", get_value("NTARF").unwrap().value)
get_current_index_standard(m) ==
    LET idx == get_value(m, <<78, 84, 65, 82, 70>>)
    IN  IF idx = <<>> THEN Fail("Panic")
        ELSE Ok(<<>>, <<69, 65, 83, 70>> \o idx[1].value)

get_current_index(m) ==
    IF m.mode = "Legacy" THEN get_current_index_legacy(m)
    ELSE get_current_index_standard(m)

\* &optarif[0..3]: the first three bytes of the str; aborts when the str
\* has fewer than three bytes or byte 3 is not a char boundary
slice_0_3(s) ==
    LET bytes == as_bytes(s)
    IN  IF Len(bytes) < 3 \/ (Len(bytes) > 3 /\ IsCont(bytes[4]))
        THEN Fail("Panic")
        ELSE Ok(<<>>, Take(bytes, 3))

\* the match of get_billing_indices_legacy: OPTARIF |-> index names
billing_indices_of_optarif ==
    { <<<<66, 65, 83, 69>>,
       <<<<66, 65, 83, 69>>>>>>,
      <<<<72, 67, 46, 46>>,
       <<<<72, 67, 72, 67>>,
         <<72, 67, 72, 80>>>>>>,
      <<<<69, 74, 80, 46>>,
       <<<<69, 74, 80, 72, 78>>,
         <<69, 74, 80, 80, 77>>>>>>,
      <<<<66, 66, 82>>,
       <<<<66, 66, 82, 72, 67, 74, 66>>,
         <<66, 66, 82, 72, 80, 74, 66>>,
         <<66, 66, 82, 72, 67, 74, 82>>,
         <<66, 66, 82, 72, 80, 74, 82>>,
         <<66, 66, 82, 72, 67, 74, 87>>,
         <<66, 66, 82, 72, 80, 74, 87>>>>>> }

\* get_value("OPTARIF").unwrap().value, replaced by "BBR" when it starts
\* with "BBR", matched against the table, else ["BASE"]
get_billing_indices_legacy(m) ==
    LET v == get_value(m, <<79, 80, 84, 65, 82, 73, 70>>)
    IN  IF v = <<>> THEN Fail("Panic")
        ELSE LET head == slice_0_3(v[1].value)
                 optarif == IF head.st = "Ok" /\ head.out = <<66, 66, 82>>
                            THEN <<66, 66, 82>> ELSE v[1].value
             IN  IF head.st # "Ok" THEN Fail("Panic")
                 ELSE IF \E e \in billing_indices_of_optarif : e[1] = optarif
                 THEN Ok(<<>>, (CHOOSE e \in billing_indices_of_optarif :
                                   e[1] = optarif)[2])
                 ELSE Ok(<<>>, <<<<66, 65, 83, 69>>>>)

\* "EASF01" .. "EASF10"
get_billing_indices_standard(m) ==
    Ok(<<>>, [i \in 1..10 |-> <<69, 65, 83, 70>> \o <<48 + (i \div 10), 48 + (i % 10)>>])

get_billing_indices(m) ==
    IF m.mode = "Legacy" THEN get_billing_indices_legacy(m)
    ELSE get_billing_indices_standard(m)
----------------------------------------------------------------------------
(* The byte streams a meter puts on the transport.                          *)
(* A line is described by what was sent: its mode, tag, raw horodate (<<>>  *)
(* when it has none) with the date-time it denotes, value, the checksum     *)
(* character on the wire (csok: it is the one the protocol prescribes) and  *)
(* its terminator. shape says whether the line follows the line grammar.    *)

MaxCalls == 2   \* successive get_message calls on one transport

\* BASE 12, checksum right
line_BASE ==
    [mode |-> "Legacy", shape |-> "ok", tag |-> <<66, 65, 83, 69>>,
     hd |-> <<>>,
     date |-> <<>>, value |-> <<49, 50>>,
     cs |-> 62, csok |-> TRUE, term |-> 13]
\* IINST1 3, checksum right
line_IINST1 ==
    [mode |-> "Legacy", shape |-> "ok", tag |-> <<73, 73, 78, 83, 84, 49>>,
     hd |-> <<>>,
     date |-> <<>>, value |-> <<51>>,
     cs |-> 43, csok |-> TRUE, term |-> 13]
\* IINST1 3, checksum wrong
line_IINST1_badcs ==
    [mode |-> "Legacy", shape |-> "ok", tag |-> <<73, 73, 78, 83, 84, 49>>,
     hd |-> <<>>,
     date |-> <<>>, value |-> <<51>>,
     cs |-> 33, csok |-> FALSE, term |-> 13]
\* BASE 12, checksum wrong
line_BASE_badcs ==
    [mode |-> "Legacy", shape |-> "ok", tag |-> <<66, 65, 83, 69>>,
     hd |-> <<>>,
     date |-> <<>>, value |-> <<49, 50>>,
     cs |-> 33, csok |-> FALSE, term |-> 13]
\* PAPP 7, terminated by \n instead of \r
line_PAPP_badterm ==
    [mode |-> "Legacy", shape |-> "badterm", tag |-> <<80, 65, 80, 80>>,
     hd |-> <<>>,
     date |-> <<>>, value |-> <<55>>,
     cs |-> 40, csok |-> TRUE, term |-> 10]
\* XX 1, a tag of no dictionary
line_XX ==
    [mode |-> "Legacy", shape |-> "unknown", tag |-> <<88, 88>>,
     hd |-> <<>>,
     date |-> <<>>, value |-> <<49>>,
     cs |-> 33, csok |-> TRUE, term |-> 13]
\* EAST 5 6, checksum right
line_EAST ==
    [mode |-> "Standard", shape |-> "ok", tag |-> <<69, 65, 83, 84>>,
     hd |-> <<>>,
     date |-> <<>>, value |-> <<53, 32, 54>>,
     cs |-> 42, csok |-> TRUE, term |-> 13]
\* DATE H200214230804 with an empty value, checksum right
line_DATE ==
    [mode |-> "Standard", shape |-> "ok", tag |-> <<68, 65, 84, 69>>,
     hd |-> <<72, 50, 48, 48, 50, 49, 52, 50, 51, 48, 56, 48, 52>>,
     date |-> <<2020, 2, 14, 23, 8, 4>>, value |-> <<>>,
     cs |-> 59, csok |-> TRUE, term |-> 13]
\* EAST 5 6, checksum wrong
line_EAST_badcs ==
    [mode |-> "Standard", shape |-> "ok", tag |-> <<69, 65, 83, 84>>,
     hd |-> <<>>,
     date |-> <<>>, value |-> <<53, 32, 54>>,
     cs |-> 33, csok |-> FALSE, term |-> 13]
\* UMOY1 with a horodate ending in a non-digit
line_UMOY1_badhd ==
    [mode |-> "Standard", shape |-> "badhd", tag |-> <<85, 77, 79, 89, 49>>,
     hd |-> <<72, 50, 48, 48, 50, 49, 52, 50, 51, 48, 56, 48, 88>>,
     date |-> <<>>, value |-> <<50>>,
     cs |-> 46, csok |-> TRUE, term |-> 13]
\* UMOY1 with a horodate whose date starts with a non-digit
line_UMOY1_nodigit ==
    [mode |-> "Standard", shape |-> "badhd", tag |-> <<85, 77, 79, 89, 49>>,
     hd |-> <<72, 88, 48, 48, 50, 49, 52, 50, 51, 48, 56, 48, 52>>,
     date |-> <<>>, value |-> <<50>>,
     cs |-> 48, csok |-> TRUE, term |-> 13]
\* DATE E201025023000: 02:30 on the day daylight saving time ends in
\* Europe/Paris, a local time that zone has twice
line_DATE_paris ==
    [mode |-> "Standard", shape |-> "ok", tag |-> <<68, 65, 84, 69>>,
     hd |-> <<69, 50, 48, 49, 48, 50, 53, 48, 50, 51, 48, 48, 48>>,
     date |-> <<2020, 10, 25, 2, 30, 0>>, value |-> <<>>,
     cs |-> 45, csok |-> TRUE, term |-> 13]
\* DATE H201025030000: 03:00:00 on that day, the second that closes the
\* repeated hour
line_DATE_closing ==
    [mode |-> "Standard", shape |-> "ok", tag |-> <<68, 65, 84, 69>>,
     hd |-> <<72, 50, 48, 49, 48, 50, 53, 48, 51, 48, 48, 48, 48>>,
     date |-> <<2020, 10, 25, 3, 0, 0>>, value |-> <<>>,
     cs |-> 46, csok |-> TRUE, term |-> 13]
\* DATE H200308023000: 02:30 on the day daylight saving time begins in
\* America/New_York, a local time that zone skips
line_DATE_new_york ==
    [mode |-> "Standard", shape |-> "ok", tag |-> <<68, 65, 84, 69>>,
     hd |-> <<72, 50, 48, 48, 51, 48, 56, 48, 50, 51, 48, 48, 48>>,
     date |-> <<2020, 3, 8, 2, 30, 0>>, value |-> <<>>,
     cs |-> 51, csok |-> TRUE, term |-> 13]

Lines ==
    { line_BASE, line_IINST1, line_IINST1_badcs,
      line_BASE_badcs, line_PAPP_badterm, line_XX,
      line_EAST, line_DATE, line_EAST_badcs,
      line_UMOY1_badhd, line_UMOY1_nodigit, line_DATE_paris,
      line_DATE_closing, line_DATE_new_york }

\* the line as the meter writes it (all characters are ASCII: one byte each)
EncodeLine(d) ==
    LET sep == IF d.mode = "Standard" THEN HT ELSE SP
    IN  <<LF>> \o d.tag \o <<sep>>
        \o (IF d.hd = <<>> THEN <<>> ELSE d.hd \o <<sep>>)
        \o d.value \o <<sep>> \o <<d.cs>> \o <<d.term>>

RECURSIVE EncodeBody(_)
EncodeBody(ds) ==
    IF ds = <<>> THEN <<>> ELSE EncodeLine(Head(ds)) \o EncodeBody(Tail(ds))

\* a complete Legacy frame whose two lines have the same tag, the second
\* with a value of one two-byte character:
\* "\u{2}\nBASE 12 >\r\nBASE \u{e9} D\r\u{3}"
SecondFrame ==
    <<STX, LF, 66, 65, 83, 69, SP, 49, 50, SP, 62, CR,
           LF, 66, 65, 83, 69, SP, 195, 169, SP, 68, CR, ETX>>

\* what surrounds the first frame: bytes before its 0x02, whether its 0x03
\* was sent, and the bytes after it
Envelopes ==
    { [pre |-> <<>>, closed |-> TRUE, tail |-> <<>>],
      \* noise holding a stray 0x03, and a three-byte character (U+20AC)
      \* after the frame
      [pre |-> <<120, ETX, 121, 122>>, closed |-> TRUE,
       tail |-> <<226, 130, 172>>],
      \* the stream ends inside the frame
      [pre |-> <<>>, closed |-> FALSE, tail |-> <<>>],
      \* a byte that is not valid UTF-8 after the frame
      [pre |-> <<>>, closed |-> TRUE, tail |-> <<255>>],
      \* a second frame follows
      [pre |-> <<>>, closed |-> TRUE, tail |-> SecondFrame] }

BuildStream(env, body) ==
    env.pre \o <<STX>> \o EncodeBody(body)
    \o (IF env.closed THEN <<ETX>> ELSE <<>>) \o env.tail

\* the bodies of the first frame that are sent with nothing around the frame
Frames ==
    { <<>>,
      <<line_BASE>>, <<line_BASE_badcs>>, <<line_XX>>, <<line_PAPP_badterm>>,
      <<line_IINST1>>, <<line_IINST1_badcs>>, <<line_EAST>>, <<line_DATE>>, <<line_UMOY1_badhd>>,
      <<line_DATE_paris>>, <<line_DATE_closing>>, <<line_DATE_new_york>>,
      <<line_BASE, line_IINST1>>, <<line_BASE, line_BASE_badcs>>,
      <<line_BASE, line_PAPP_badterm>>, <<line_BASE, line_EAST>>,
      <<line_EAST, line_BASE>>, <<line_EAST, line_DATE>>,
      <<line_DATE, line_EAST>>, <<line_DATE, line_EAST_badcs>>,
      <<line_EAST, line_UMOY1_badhd>>, <<line_EAST, line_UMOY1_nodigit>>,
      <<line_EAST, line_DATE_paris>> }

\* the bodies that are sent in every envelope
EnvelopedFrames ==
    { <<>>, <<line_BASE>>, <<line_BASE, line_PAPP_badterm>>,
      <<line_EAST, line_DATE>> }

\* the streams: <<envelope, body of the first frame>>
Streams ==
    {<<[pre |-> <<>>, closed |-> TRUE, tail |-> <<>>], b>> : b \in Frames}
    \cup (Envelopes \X EnvelopedFrames)

\* the zones a stream is decoded under: a zone matters only to a horodate
ZonesFor(body) ==
    IF \E i \in 1..Len(body) : body[i].hd # <<>> THEN LocalZones ELSE {"UTC"}

----------------------------------------------------------------------------
(* lib.rs: get_message, one action per loop iteration                       *)

VARIABLES
    stream,     \* every byte the transport will ever deliver
    sent,       \* the lines of the first frame of stream, as sent
    pos,        \* number of bytes of stream the transport has delivered
    calls,      \* number of get_message calls made
    start,      \* pos when the current call began
    leftover,   \* the leftover argument of the current call
    acc,        \* the accumulator (bytes)
    lastRead,   \* what source.read did in the last iteration
    pc,         \* "idle", "loop", or how the call ended
    remain,     \* the String returned by the last call that returned Ok
    msg,        \* the TeleinfoMessage returned by that call
    ioerror,    \* the io::Error the last source.read raised ("none": none)
    err         \* the io::Error the call returned as Err ("none": none)

vars == <<tz, stream, sent, pos, calls, start, leftover, acc, lastRead, pc,
          remain, msg, ioerror, err>>

NoMessage == [values |-> EmptyMap, mode |-> "None", valid |-> FALSE]

Init ==
    /\ \E s \in Streams :
          /\ stream = BuildStream(s[1], s[2])
          /\ sent = s[2]
          /\ tz \in ZonesFor(s[2])
    /\ pos = 0
    /\ calls = 0
    /\ start = 0
    /\ leftover = <<>>
    /\ acc = <<>>
    /\ lastRead = "none"
    /\ pc = "idle"
    /\ remain = <<>>
    /\ msg = NoMessage
    /\ ioerror = "none"
    /\ err = "none"

\* Ok((r, message)): build_message(message).unwrap(), return Ok((r, result))
return_message(r, bm) ==
    IF bm.st = "Ok"
    THEN pc' = "ok" /\ remain' = r /\ msg' = bm.out
    ELSE pc' = "panic" /\ UNCHANGED <<remain, msg>>

\* match parser::get_message(&current_data)
match_extraction(ex) ==
    IF ex.st = "Ok" THEN return_message(ex.rest, build_message(ex.out))
    ELSE IF ex.st = "Incomplete" THEN pc' = "loop" /\ UNCHANGED <<remain, msg>>
    ELSE pc' = "err" /\ UNCHANGED <<remain, msg>>

\* entry of get_message as it would be if a frame already held by leftover
\* were extracted before any read
get_message_call_eager ==
    /\ pc \in {"idle", "ok"}
    /\ calls < MaxCalls
    /\ leftover' = (IF pc = "idle" THEN <<>> ELSE remain)
    /\ acc' = as_bytes(leftover')
    /\ match_extraction(parser_get_message(
           from_utf8_lossy(as_bytes(IF pc = "idle" THEN <<>> ELSE remain))))
    /\ calls' = calls + 1
    /\ start' = pos
    /\ lastRead' = "none"
    /\ ioerror' = "none"
    /\ UNCHANGED <<tz, stream, sent, pos, err>>

\* entry of get_message: the accumulator starts as the bytes of leftover.
\* The first call is given "", a later one what the previous call returned.
get_message_call ==
    /\ pc \in {"idle", "ok"}
    /\ calls < MaxCalls
    /\ leftover' = (IF pc = "idle" THEN <<>> ELSE remain)
    /\ acc' = as_bytes(leftover')
    /\ calls' = calls + 1
    /\ start' = pos
    /\ lastRead' = "none"
    /\ pc' = "loop"
    /\ ioerror' = "none"
    /\ UNCHANGED <<tz, stream, sent, pos, remain, msg, err>>

\* the rest of an iteration once read has put buf in hand: append, decode
\* permissively, try to extract a frame, build the message
loop_body(buf) ==
    /\ acc' = acc \o buf
    /\ match_extraction(parser_get_message(from_utf8_lossy(acc \o buf)))

\* the sizes a read that delivers data can have here: any number of the
\* bytes not yet delivered that fits the buffer
ReadSizes == 1..Min(BUF_LEN, Len(stream) - pos)

\* source.read returns Ok(n), n > 0
read_data ==
    /\ pc = "loop"
    /\ pos < Len(stream)
    /\ \E n \in ReadSizes :
          /\ pos' = pos + n
          /\ loop_body(SubSeq(stream, pos + 1, pos + n))
    /\ lastRead' = "data"
    /\ ioerror' = "none"
    /\ UNCHANGED <<tz, stream, sent, calls, start, leftover, err>>

\* source.read returns Ok(0): the transport is at end-of-stream
read_eof ==
    /\ pc = "loop"
    /\ pos = Len(stream)
    /\ loop_body(<<>>)
    /\ lastRead' = "eof"
    /\ ioerror' = "none"
    /\ UNCHANGED <<tz, stream, sent, pos, calls, start, leftover, err>>

\* source.read returns Err of kind TimedOut: taken as no bytes
read_timed_out ==
    /\ pc = "loop"
    /\ loop_body(<<>>)
    /\ lastRead' = "timeout"
    /\ ioerror' = "TimedOut"
    /\ UNCHANGED <<tz, stream, sent, pos, calls, start, leftover, err>>

\* the kinds of io::Error, other than TimedOut, a transport raises here
IoErrors == {"BrokenPipe", "Other"}

\* source.read returns an Err that is taken as a timeout whatever its kind:
\* the iteration goes on with no bytes
read_failed_retried ==
    /\ pc = "loop"
    /\ \E e \in IoErrors : ioerror' = e
    /\ loop_body(<<>>)
    /\ lastRead' = "error"
    /\ UNCHANGED <<tz, stream, sent, pos, calls, start, leftover, err>>

\* source.read returns any other Err: returned to the caller
read_failed ==
    /\ pc = "loop"
    /\ \E e \in IoErrors : ioerror' = e /\ err' = e
    /\ pc' = "ioerr"
    /\ lastRead' = "error"
    /\ UNCHANGED <<tz, stream, sent, pos, calls, start, leftover, acc, remain, msg>>

Next ==
    \/ get_message_call
    \/ read_data
    \/ read_eof
    \/ read_timed_out
    \/ read_failed

Spec == Init /\ [][Next]_vars

TypeOK ==
    /\ pc \in {"idle", "loop", "ok", "err", "ioerr", "panic"}
    /\ pos \in 0..Len(stream)
    /\ calls \in 0..MaxCalls
    /\ tz \in LocalZones

----------------------------------------------------------------------------
(* What the properties are stated against: the wire format, read off the    *)
(* bytes and the lines sent, independently of the parsers above.            *)

\* a 0x02 followed later by a 0x03
HasFrame(s) == \E i, j \in 1..Len(s) : i < j /\ s[i] = STX /\ s[j] = ETX

\* index of the first 0x02, and of the first 0x03 after it
StxAt(s) == CHOOSE i \in 1..Len(s) : s[i] = STX /\ \A k \in 1..(i - 1) : s[k] # STX
EtxAt(s) ==
    CHOOSE j \in (StxAt(s) + 1)..Len(s) :
        s[j] = ETX /\ \A k \in (StxAt(s) + 1)..(j - 1) : s[k] # ETX

FrameBody(s) == SubSeq(s, StxAt(s) + 1, EtxAt(s) - 1)
AfterFrame(s) == SubSeq(s, EtxAt(s) + 1, Len(s))

\* the input of the current call: the bytes of its leftover argument followed
\* by every byte the transport delivered during the call
CallInput == as_bytes(leftover) \o SubSeq(stream, start + 1, pos)

\* the last iteration read (possibly nothing) and went on to try an extraction
Attempted == lastRead \in {"data", "eof", "timeout"}

\* the first call has been handed the whole first frame
FirstFrameIn == calls = 1 /\ Attempted /\ HasFrame(CallInput)

\* the checksum the protocol prescribes for a line of a mode
RefSum(s) == LET f[i \in 0..Len(s)] == IF i = 0 THEN 0 ELSE f[i - 1] + s[i]
             IN  f[Len(s)]
RefChecksum(mode, t, raw, value) ==
    LET sep == IF mode = "Legacy" THEN SP ELSE HT
        content == t \o <<sep>>
                   \o (IF raw = <<>> THEN <<>> ELSE raw \o <<sep>>)
                   \o value
                   \o (IF mode = "Legacy" THEN <<>> ELSE <<sep>>)
    IN  (RefSum(content) % 64) + 32

\* the field a sent line stands for, and the mapping a run of sent lines
\* stands for (the last line of a tag decides)
SentField(d) ==
    [value |-> d.value,
     horodate |-> IF d.hd = <<>> THEN None
                  ELSE TeleinfoDate(d.hd[1], d.date, d.hd)]
SentMap(ds) ==
    [t \in {ds[i].tag : i \in 1..Len(ds)} |->
        SentField(ds[CHOOSE i \in 1..Len(ds) :
                        ds[i].tag = t /\ \A j \in (i + 1)..Len(ds) : ds[j].tag # t])]

\* the line parser of the line's mode accepts the line
Tokenizes(d) ==
    IF d.mode = "Legacy" THEN parser_dataset_legacy(EncodeLine(d)).st = "Ok"
    ELSE parser_dataset_standard(EncodeLine(d)).st = "Ok"

\* number of leading lines of ds that are of the first line's mode and tokenize
RECURSIVE LeadRun(_, _)
LeadRun(ds, mode) ==
    IF ds # <<>> /\ Head(ds).mode = mode /\ Tokenizes(Head(ds))
    THEN 1 + LeadRun(Tail(ds), mode)
    ELSE 0
LeadCount(ds) == IF ds = <<>> THEN 0 ELSE LeadRun(ds, ds[1].mode)

----------------------------------------------------------------------------
(* Properties *)

\* C1: every call returns; in particular once the transport is at
\* end-of-stream (read returned 0 bytes) and the input of the call holds no
\* complete 0x02...0x03 frame, the call has returned instead of looping on.
C1_ReturnsAtEndOfStream ==
    (lastRead = "eof" /\ ~HasFrame(CallInput)) => pc # "loop"

\* C2: a delimited frame whose body is invalid under both grammars (no line
\* at all, or a first line that does not follow the line grammar) ends the
\* call with the error value of handle_nom_error: no abort, no Record.
C2_InvalidFrameIsParseError ==
    (FirstFrameIn /\ (sent = <<>> \/ sent[1].shape # "ok")) => pc = "err"

\* C3 as stated: when the first line of a frame follows the grammar and a
\* later line does not, no Record is returned.
C3_PartialFrameYieldsNoRecord ==
    (FirstFrameIn /\ Len(sent) >= 2 /\ sent[1].shape = "ok"
     /\ \E i \in 2..Len(sent) : sent[i].shape # "ok")
    => pc # "ok"

\* what parser_message made of the frame the returned call extracted
Parsed == parser_message(FrameBody(from_utf8_lossy(acc)))

\* C3 amended: get_message never yields a partial Record with valid = TRUE.
\* A Record with valid = TRUE is returned only when every line of the body
\* follows the grammar of the Record's mode and is in the Record, and never
\* when the line parser left part of the body unconsumed. When one or more
\* leading lines tokenize and a later line does not, any Record the call
\* returns has the mode of the leading lines, exactly their fields and
\* valid = FALSE.
C3_ValidOnlyWhenBodyConsumed ==
    /\ (pc = "ok" /\ msg.valid) => Parsed.rest = <<>>
    /\ (pc = "ok" /\ calls = 1 /\ msg.valid)
       => /\ Len(sent) >= 1
          /\ \A i \in 1..Len(sent) :
                /\ sent[i].shape = "ok"
                /\ sent[i].mode = msg.mode
                /\ sent[i].tag \in DOMAIN msg.values
    /\ (pc = "ok" /\ calls = 1 /\ LeadCount(sent) < Len(sent))
       => /\ ~msg.valid
          /\ msg.mode = sent[1].mode
          /\ msg.values = SentMap(SubSeq(sent, 1, LeadCount(sent)))

\* a partial Record: the frame has a line that tokenizes and then one that
\* does not, and the Record returned has the first line's field only
C3_Witness ==
    /\ pc = "ok" /\ calls = 1 /\ ~msg.valid
    /\ Len(sent) = 2 /\ LeadCount(sent) = 1 /\ sent[2].shape # "ok"
    /\ DOMAIN msg.values = {sent[1].tag}
    /\ Parsed.rest # <<>>

\* C4: in every Record returned, valid is TRUE iff the line parser consumed
\* the whole frame body and the checksum character of every tokenized line
\* is the one the protocol prescribes for the Record's mode.
C4_ValidIffConsumedAndChecksums ==
    pc = "ok" =>
        (msg.valid <=>
            /\ Parsed.rest = <<>>
            /\ \A i \in 1..Len(Parsed.out.lines) :
                  LET l == Parsed.out.lines[i]
                  IN  l.cs = RefChecksum(msg.mode, l.tag, l.hd.raw_value, l.value))

C4_Witness ==
    /\ pc = "ok" /\ ~msg.valid
    /\ Parsed.rest = <<>>
    /\ Len(Parsed.out.lines) = 2

\* C5: when the body starts with one or more lines that tokenize and then has
\* a line that does not, get_message returns Ok: the Record has the mode of
\* the leading lines, exactly their fields, valid = FALSE, and the leftover
\* is the text after the frame's 0x03.
C5_TruncatedRecord ==
    (FirstFrameIn /\ LeadCount(sent) >= 1 /\ LeadCount(sent) < Len(sent))
    => /\ pc = "ok"
       /\ msg.mode = sent[1].mode
       /\ msg.values = SentMap(SubSeq(sent, 1, LeadCount(sent)))
       /\ ~msg.valid
       /\ remain = from_utf8_lossy(AfterFrame(CallInput))

C5_Witness ==
    /\ FirstFrameIn /\ pc = "ok"
    /\ LeadCount(sent) = 1 /\ Len(sent) = 2
    /\ sent[2].shape = "badterm"
    /\ remain # <<>>

\* the line parser of the line's mode aborts on the line (an unwrap inside
\* parser_horodate)
Aborts(d) ==
    IF d.mode = "Legacy" THEN parser_dataset_legacy(EncodeLine(d)).st = "Panic"
    ELSE parser_dataset_standard(EncodeLine(d)).st = "Panic"

\* the same, for the frames none of whose lines makes the line parser abort
C5_TruncatedUnlessAbort ==
    (\A i \in 1..Len(sent) : ~Aborts(sent[i])) => C5_TruncatedRecord

\* a frame whose first line tokenizes and whose second makes the line
\* parser abort, whatever the zone: the call aborts
C5_AbortWitness ==
    /\ FirstFrameIn /\ pc = "panic" /\ tz = "UTC"
    /\ LeadCount(sent) = 1 /\ Len(sent) = 2 /\ Aborts(sent[2])

\* the frame sent is assembled from known fields: at least one line, all of
\* one mode, each following the line grammar with the prescribed checksum,
\* no tag twice
KnownFields(ds) ==
    /\ Len(ds) >= 1
    /\ \A i \in 1..Len(ds) :
          ds[i].shape = "ok" /\ ds[i].csok /\ ds[i].mode = ds[1].mode
    /\ \A i, j \in 1..Len(ds) : i # j => ds[i].tag # ds[j].tag

\* C6: round trip. A frame assembled from known fields of one mode's
\* dictionaries with correct checksums decodes to a Record of that mode with
\* valid = TRUE and a tag-to-value mapping equal to the fields sent.
C6_RoundTrip ==
    (FirstFrameIn /\ KnownFields(sent))
    => /\ pc = "ok"
       /\ msg.mode = sent[1].mode
       /\ msg.valid
       /\ msg.values = SentMap(sent)

\* the line as it is with the prescribed checksum character
Twin(d) ==
    CHOOSE g \in Lines :
        /\ g.csok
        /\ g.mode = d.mode /\ g.shape = d.shape /\ g.tag = d.tag
        /\ g.hd = d.hd /\ g.value = d.value /\ g.term = d.term

\* a structurally well-formed frame, the checksum character of exactly one
\* line replaced: at least one line, every line following the line grammar
\* of one mode
OneChecksumReplaced(ds) ==
    /\ Len(ds) >= 1
    /\ Cardinality({i \in 1..Len(ds) : ~ds[i].csok}) = 1
    /\ \A i \in 1..Len(ds) : ds[i].mode = ds[1].mode /\ ds[i].shape = "ok"

\* C7: a checksum mismatch never blocks Record construction. For a
\* structurally well-formed frame in which exactly one line's checksum
\* character is replaced, get_message returns a Record with all the fields
\* of the frame and valid = FALSE.
C7_ChecksumMismatchKeepsFields ==
    (FirstFrameIn /\ OneChecksumReplaced(sent))
    => /\ pc = "ok"
       /\ msg.mode = sent[1].mode
       /\ msg.values = SentMap(sent)
       /\ ~msg.valid

\* the same, for the frames every line of which the line parser accepts
\* when its checksum is right
C7_MismatchKeepsFieldsWhenTokenized ==
    (\A i \in 1..Len(sent) : Tokenizes(Twin(sent[i])))
    => C7_ChecksumMismatchKeepsFields

C7_Witness ==
    /\ FirstFrameIn /\ OneChecksumReplaced(sent)
    /\ pc = "ok" /\ ~msg.valid
    /\ Len(sent) = 2 /\ ~sent[2].csok
    /\ Cardinality(DOMAIN msg.values) = 2

\* C8: whenever the input accumulated by the call holds no 0x02, or no 0x03
\* after its first 0x02, the extraction attempt yields no Record and no
\* error: the call stays in its loop and the accumulator holds every byte
\* accumulated so far.
C8_IncompleteKeepsBytes ==
    (Attempted /\ ~HasFrame(CallInput)) => (pc = "loop" /\ acc = CallInput)

C8_Witness ==
    /\ pc = "loop" /\ lastRead = "data"
    /\ ~HasFrame(acc)
    /\ \E i \in 1..Len(acc) : acc[i] = ETX
    /\ \A i \in 1..Len(acc) : acc[i] # STX

\* C9: on a buffer holding a 0x02 followed later by a 0x03,
\* parser::get_message returns as body the characters between the first 0x02
\* and the first 0x03 after it, and as remainder the characters after that
\* 0x03; what precedes the first 0x02 has no influence.
C9_FrameExtraction ==
    LET cur == from_utf8_lossy(acc)
    IN  HasFrame(cur) =>
            /\ parser_get_message(cur) = Ok(AfterFrame(cur), FrameBody(cur))
            /\ parser_get_message(Drop(cur, StxAt(cur) - 1))
                   = parser_get_message(cur)

C9_Witness ==
    LET cur == from_utf8_lossy(acc)
    IN  /\ HasFrame(cur)
        /\ StxAt(cur) > 1
        /\ \E i \in 1..(StxAt(cur) - 1) : cur[i] = ETX
        /\ FrameBody(cur) # <<>>
        /\ AfterFrame(cur) # <<>>

\* C10: the leftover a call returns is, byte for byte, the part of the
\* call's input (leftover argument, then the bytes read) that follows the
\* consumed frame's 0x03.
C10_LeftoverIsExactSuffix ==
    pc = "ok" => as_bytes(remain) = AfterFrame(CallInput)

\* the same stream delivered whole by the first read of the first call
OneShot == parser_get_message(from_utf8_lossy(stream))

\* C11: the Record does not depend on how the transport cuts the bytes into
\* reads: whatever the reads of the first call were (short, whole, empty or
\* timed out), the Record is the one a single read of the whole stream gives,
\* and the leftover followed by the bytes not yet read equals the leftover
\* of that single read.
C11_SegmentationIndependent ==
    (pc = "ok" /\ calls = 1)
    => /\ OneShot.st = "Ok"
       /\ msg = build_message(OneShot.out).out
       /\ as_bytes(remain) \o SubSeq(stream, pos + 1, Len(stream))
              = as_bytes(OneShot.rest)

\* C12: a read error that is not a timeout ends the call at once: the step
\* on which it is raised leaves the call with that same error, reads and
\* accumulates nothing, returns no Record, and the call takes no further
\* step.
C12_ReadErrorEndsCall ==
    /\ [][lastRead' = "error" =>
            /\ pc = "loop" /\ pc' = "ioerr"
            /\ ioerror' \in IoErrors /\ err' = ioerror'
            /\ UNCHANGED <<pos, acc, remain, msg>>]_vars
    /\ [][pc = "ioerr" => UNCHANGED vars]_vars

C12_Witness ==
    /\ pc = "ioerr" /\ err = "BrokenPipe" /\ ioerror = "BrokenPipe"
    /\ calls = 2 /\ pos > start /\ Len(acc) > 0

\* the checksum character of a content: low six bits of the sum, plus 0x20
RefChar(content) == (RefSum(content) % 64) + 32

\* C13: validation follows the mode's whitespace convention. For every
\* tokenized line of a returned Record: validate(Legacy, line) is TRUE iff
\* its checksum character is that of tag, space, value; validate(Standard,
\* line) is TRUE iff it is that of tag, tab, value, tab for a line without
\* horodate and of tag, tab, raw horodate, tab, value, tab for a line with
\* one. (A Legacy line never carries a horodate.)
C13_ValidateWhitespaceConvention ==
    pc = "ok" =>
        \A i \in 1..Len(Parsed.out.lines) :
            LET l == Parsed.out.lines[i]
            IN  /\ ~l.hd.some =>
                      /\ validate("Legacy", l)
                            <=> l.cs = RefChar(l.tag \o <<SP>> \o l.value)
                      /\ validate("Standard", l)
                            <=> l.cs = RefChar(l.tag \o <<HT>> \o l.value \o <<HT>>)
                /\ l.hd.some =>
                      (validate("Standard", l)
                          <=> l.cs = RefChar(l.tag \o <<HT>> \o l.hd.raw_value
                                             \o <<HT>> \o l.value \o <<HT>>))

C13_Witness ==
    /\ pc = "ok" /\ msg.mode = "Standard" /\ msg.valid
    /\ Len(Parsed.out.lines) = 2
    /\ Parsed.out.lines[1].hd.some
    /\ ~Parsed.out.lines[2].hd.some

\* the amounts by which one character of a checksum input is moved
FlipDeltas == {1, 32, 64}

\* the tuples that differ from l by one character of the tag, of the raw
\* horodate or of the value, that character being moved up by d
FlipsBy(l, d) ==
    {[l EXCEPT !.tag[p] = @ + d] : p \in 1..Len(l.tag)}
    \cup {[l EXCEPT !.value[p] = @ + d] : p \in 1..Len(l.value)}
    \cup (IF l.hd.some
          THEN {[l EXCEPT !.hd.raw_value[p] = @ + d] :
                    p \in 1..Len(l.hd.raw_value)}
          ELSE {})

\* C14 as stated: changing any one character of the checksum input of a
\* line that validates, the checksum character kept, makes validation fail.
C14_AnyFlipFails ==
    pc = "ok" =>
        \A i \in 1..Len(Parsed.out.lines) :
            validate(msg.mode, Parsed.out.lines[i]) =>
                \A d \in FlipDeltas :
                    \A f \in FlipsBy(Parsed.out.lines[i], d) :
                        ~validate(msg.mode, f)

\* C14 amended: changing one character of the tag, raw horodate or value of
\* a line that validates to a character whose code point differs from it by
\* something other than a multiple of 64 makes validation fail.
C14_FlipNotMultipleOf64Fails ==
    pc = "ok" =>
        \A i \in 1..Len(Parsed.out.lines) :
            validate(msg.mode, Parsed.out.lines[i]) =>
                \A d \in {x \in FlipDeltas : x % 64 # 0} :
                    \A f \in FlipsBy(Parsed.out.lines[i], d) :
                        ~validate(msg.mode, f)

C14_Witness ==
    /\ pc = "ok"
    /\ \E i \in 1..Len(Parsed.out.lines) :
          LET l == Parsed.out.lines[i]
          IN  /\ validate(msg.mode, l)
              /\ l.hd.some
              /\ \E f \in FlipsBy(l, 32) :
                    f.hd.raw_value # l.hd.raw_value /\ ~validate(msg.mode, f)

\* every line sent tokenizes in the mode of the first
WellFormedIn(ds, mode) ==
    /\ Len(ds) >= 1
    /\ \A i \in 1..Len(ds) : ds[i].mode = mode /\ Tokenizes(ds[i])

\* C15: mode selection is exclusive. On no frame body do both
\* parser_message_legacy and parser_message_standard succeed; the mode of a
\* returned Record is that of the one grammar that succeeded; a well-formed
\* Legacy frame is refused by the Standard grammar and returned as Legacy,
\* and a well-formed Standard frame is refused by the Legacy grammar and
\* returned as Standard.
C15_ModeExclusive ==
    LET cur == from_utf8_lossy(acc)
    IN  HasFrame(cur) =>
            LET body == FrameBody(cur)
                L == parser_message_legacy(body)
                S == parser_message_standard(body)
            IN  /\ ~(L.st = "Ok" /\ S.st = "Ok")
                /\ pc = "ok" =>
                      msg.mode = (IF L.st = "Ok" THEN "Legacy" ELSE "Standard")
                /\ (FirstFrameIn /\ WellFormedIn(sent, "Legacy")) =>
                      (S.st = "Error" /\ pc = "ok" /\ msg.mode = "Legacy")
                /\ (FirstFrameIn /\ WellFormedIn(sent, "Standard")) =>
                      (L.st = "Error" /\ pc = "ok" /\ msg.mode = "Standard")

C15_Witness ==
    /\ FirstFrameIn /\ pc = "ok" /\ msg.mode = "Standard"
    /\ Len(sent) = 2 /\ sent[2].mode = "Legacy" /\ Tokenizes(sent[2])
    /\ parser_message_legacy(FrameBody(from_utf8_lossy(acc))).st = "Error"

\* the line d with its raw horodate replaced by hd
WithHorodate(d, hd) == [d EXCEPT !.hd = hd]

\* a frame body of two lines: a Standard line that tokenizes, then the line d
AfterGoodLine(d) ==
    EncodeLine(CHOOSE g \in Lines :
                   g.mode = "Standard" /\ g.hd = <<>> /\ g.csok /\ Tokenizes(g))
    \o EncodeLine(d)

\* C16: a horodate candidate of 13 characters whose first character is not a
\* season marker, or one of whose 12 following characters (the first of the
\* twelve included) is not a digit, is a parse failure of parser_horodate,
\* and a frame whose second line carries it still decodes (to the Record of
\* the lines before it): nothing aborts. The candidates are the horodates
\* sent, with the letter X put at each of the 13 positions in turn.
C16_NonDigitIsParseFailure ==
    \A i \in 1..Len(sent) :
        (pc = "ok" /\ sent[i].hd # <<>>) =>
            \A p \in 1..Len(sent[i].hd) :
                LET cand == [sent[i].hd EXCEPT ![p] = 88]
                IN  /\ parser_horodate(cand \o <<HT>>).st = "Error"
                    /\ build_message(
                           AfterGoodLine(WithHorodate(sent[i], cand))).st = "Ok"

\* the 12 digits with the two at p replaced: month 13, day 32, hour 25
InvalidDateEdits == {<<4, 49, 51>>, <<6, 51, 50>>, <<8, 50, 53>>}

\* C17: a horodate whose 12 digits are not a calendar date-time is a parse
\* failure of parser_horodate, and a frame whose second line carries it still
\* decodes: nothing aborts. The candidates are the well-formed horodates
\* sent, with the month, the day or the hour put out of range.
C17_InvalidDateIsParseFailure ==
    \A i \in 1..Len(sent) :
        (pc = "ok" /\ sent[i].hd # <<>> /\ sent[i].shape = "ok") =>
            \A ed \in InvalidDateEdits :
                LET cand == [sent[i].hd EXCEPT ![ed[1]] = ed[2],
                                               ![ed[1] + 1] = ed[3]]
                IN  /\ parser_horodate(cand \o <<HT>>).st = "Error"
                    /\ build_message(
                           AfterGoodLine(WithHorodate(sent[i], cand))).st = "Ok"

\* the low six bits of the sum of the code points of content
RECURSIVE RefLow6(_, _, _)
RefLow6(content, lo, hi) ==
    IF lo > hi THEN 0
    ELSE IF lo = hi THEN content[lo] % 64
    ELSE (RefLow6(content, lo, (lo + hi) \div 2)
          + RefLow6(content, (lo + hi) \div 2 + 1, hi)) % 64

\* a value of 3856 characters U+10FFFF, the largest char
LongValue == [i \in 1..3856 |-> 1114111]

\* C18: calculate_checksum never fails and gives (sum of the code points AND
\* 0x3F) + 0x20, a character of 0x20..0x5F, on every input; 0x20 on the empty
\* input. The inputs are the empty string and, for every tokenized line of a
\* returned Record, its tag and the separator followed by nothing, by its
\* value, and by a value of 3856 characters U+10FFFF.
C18_ChecksumTotal ==
    pc = "ok" =>
        /\ calculate_checksum_builds(<<>>) = {[panic |-> FALSE, char |-> 32]}
        /\ \A i \in 1..Len(Parsed.out.lines) :
              \A v \in {<<>>, Parsed.out.lines[i].value, LongValue} :
                  LET content == Parsed.out.lines[i].tag
                                 \o <<separator(msg.mode)>> \o v
                      ref == RefLow6(content, 1, Len(content)) + 32
                  IN  /\ ref \in 32..95
                      /\ calculate_checksum_builds(content)
                             = {[panic |-> FALSE, char |-> ref]}

\* the tags a dictionary enumerates, as a set
TagSet(tags) == {tags[i] : i \in 1..Len(tags)}
LegacyTags ==
    TagSet(parser_tag_legacy_1_tags) \cup TagSet(parser_tag_legacy_2_tags)
    \cup TagSet(parser_tag_legacy_3_tags)
StandardTags ==
    TagSet(parser_tag_standard_1_tags) \cup TagSet(parser_tag_standard_2_tags)
    \cup TagSet(parser_tag_standard_3_tags)
StandardHorodateTags ==
    TagSet(parser_tag_standard_horodate_1_tags)
    \cup TagSet(parser_tag_standard_horodate_2_tags)

\* C19: tag recognition is dictionary membership. Each tag parser, given a
\* tag of its dictionary followed by the separator, returns that tag and
\* leaves the separator; and a Legacy line sent that is otherwise well
\* formed is tokenized exactly when its tag is in the Legacy dictionary,
\* with that tag.
C19_TagIsDictionaryMembership ==
    Attempted =>
        /\ \A t \in LegacyTags :
              parser_tag_legacy(t \o <<SP>>) = Ok(<<SP>>, t)
        /\ \A t \in StandardTags :
              parser_tag_standard(t \o <<HT>>) = Ok(<<HT>>, t)
        /\ \A t \in StandardHorodateTags :
              parser_tag_standard_horodate(t \o <<HT>>) = Ok(<<HT>>, t)
        /\ \A i \in 1..Len(sent) :
              (sent[i].mode = "Legacy" /\ sent[i].term = CR) =>
                  LET r == parser_dataset_legacy(EncodeLine(sent[i]))
                  IN  /\ r.st = "Ok" <=> sent[i].tag \in LegacyTags
                      /\ r.st = "Ok" => r.out.tag = sent[i].tag

\* C20: the order within the loop. A call's entry extracts nothing and
\* returns nothing, even when its leftover holds a whole frame. Each
\* iteration whose read does not fail makes one read of at most 200 bytes,
\* appends what it read to the accumulator, and then makes one extraction
\* attempt on the whole accumulator, whose outcome decides how the iteration
\* ends. So a call has read once before it returns anything.
C20_ReadAppendExtract ==
    /\ [][pc # "loop" =>
            /\ pc' = "loop" /\ lastRead' = "none"
            /\ acc' = as_bytes(leftover')
            /\ UNCHANGED <<pos, remain, msg>>]_vars
    /\ [][(pc = "loop" /\ pc' # "ioerr") =>
            /\ lastRead' \in {"data", "eof", "timeout"}
            /\ pos' - pos \in 0..BUF_LEN
            /\ acc' = acc \o SubSeq(stream, pos + 1, pos')
            /\ LET ex == parser_get_message(from_utf8_lossy(acc'))
               IN  /\ pc' = "loop" <=> ex.st = "Incomplete"
                   /\ pc' = "ok" =>
                         /\ ex.st = "Ok"
                         /\ remain' = ex.rest
                         /\ msg' = build_message(ex.out).out]_vars
    /\ [](pc \in {"ok", "err", "panic"} => Attempted)

C20_Witness ==
    /\ calls = 2 /\ pc = "ok"
    /\ HasFrame(as_bytes(leftover))
    /\ pos = start
    /\ lastRead \in {"eof", "timeout"}


\* C21: in every Record returned a field carries a horodate exactly when the
\* Record is Standard and the field's tag is in the timestamped dictionary:
\* no field of a Legacy Record has one, and no Standard field with a tag of
\* the plain dictionary has one.
C21_HorodateIffTimestampedTag ==
    pc = "ok" =>
        \A t \in DOMAIN msg.values :
            msg.values[t].horodate.some
                <=> (msg.mode = "Standard" /\ t \in StandardHorodateTags)

\* a Standard Record with a timestamped field and a plain one
C21_Witness ==
    /\ pc = "ok" /\ msg.mode = "Standard"
    /\ \E t, u \in DOMAIN msg.values :
          /\ msg.values[t].horodate.some
          /\ \E i \in 1..Len(sent) :
                sent[i].tag = t /\ msg.values[t].horodate.raw_value = sent[i].hd
          /\ t \in StandardHorodateTags
          /\ ~msg.values[u].horodate.some
          /\ u \in StandardTags

\* the index of the last of lines that has tag t
LastOf(lines, t) ==
    CHOOSE i \in 1..Len(lines) :
        lines[i].tag = t /\ \A j \in (i + 1)..Len(lines) : lines[j].tag # t

\* C22: tags are unique in a Record and the last occurrence wins. The tags
\* of a returned Record are the tags of the tokenized lines of its frame,
\* each mapped to the value and horodate of the last line that has it, so
\* the mapping has as many entries as the tokenized lines have distinct tags.
C22_LastOccurrenceWins ==
    pc = "ok" =>
        LET lines == Parsed.out.lines
            tags == {lines[i].tag : i \in 1..Len(lines)}
        IN  /\ DOMAIN msg.values = tags
            /\ Cardinality(DOMAIN msg.values) = Cardinality(tags)
            /\ \A t \in tags :
                  /\ msg.values[t].value = lines[LastOf(lines, t)].value
                  /\ msg.values[t].horodate = lines[LastOf(lines, t)].hd

\* a Record of a frame whose two lines have the same tag and different values
C22_Witness ==
    /\ pc = "ok"
    /\ Len(Parsed.out.lines) = 2
    /\ Parsed.out.lines[1].tag = Parsed.out.lines[2].tag
    /\ Parsed.out.lines[1].value # Parsed.out.lines[2].value
    /\ Cardinality(DOMAIN msg.values) = 1
    /\ msg.values[Parsed.out.lines[2].tag].value = Parsed.out.lines[2].value

\* the stream is a well-formed frame followed at once by SecondFrame
TwoFrames ==
    /\ WellFormedIn(sent, sent[1].mode)
    /\ stream = <<STX>> \o EncodeBody(sent) \o <<ETX>> \o SecondFrame

\* the Records the two frames stand for
FirstRecord ==
    [values |-> SentMap(sent),
     mode |-> sent[1].mode,
     valid |-> \A i \in 1..Len(sent) : sent[i].csok]
SecondRecord ==
    [values |-> [t \in {<<66, 65, 83, 69>>} |->
                    [value |-> <<233>>, horodate |-> None]],
     mode |-> "Legacy",
     valid |-> TRUE]

\* C23: on a stream of two well-formed frames sent back to back, the first
\* call returns the Record of the first frame and the second call, given
\* the first call's leftover, the Record of the second, whatever the read
\* segmentation.
C23_FramesInOrder ==
    (sent # <<>> /\ TwoFrames /\ pc = "ok") =>
        /\ calls = 1 => msg = FirstRecord
        /\ calls = 2 => msg = SecondRecord

\* the same, for the deliveries in which no read of the first call ended
\* between the two bytes of a character of the second frame
C23_FramesInOrderUnlessSplit ==
    (sent # <<>> /\ TwoFrames /\ pc = "ok"
     /\ as_bytes(leftover) \o SubSeq(stream, start + 1, Len(stream))
            = SubSeq(stream, Len(stream) - Len(SecondFrame) + 1, Len(stream)))
    => msg = SecondRecord

\* C24: the accessors are total on every Record get_message returns:
\* get_message_type, get_meter_type, get_current_index and
\* get_billing_indices each return a value without aborting, whatever
\* fields the Record has.
C24_AccessorsTotal ==
    pc = "ok" =>
        /\ get_message_type(msg) \in {"Short", "Normal"}
        /\ get_meter_type(msg) \in {"MonoPhase", "TriPhase"}
        /\ get_current_index(msg).st = "Ok"
        /\ get_billing_indices(msg).st = "Ok"

\* m with the field key set to the value v
WithField(m, key, v) ==
    [m EXCEPT !.values = Insert(m.values, key,
                                [value |-> v, horodate |-> None])]

\* what the accessors do on the Records returned, and on those Records
\* given a PTEC, an NTARF or an OPTARIF: get_message_type and
\* get_meter_type always return; get_current_index aborts exactly on a
\* Legacy Record without PTEC and on a Standard Record without NTARF;
\* get_billing_indices aborts exactly on a Legacy Record without OPTARIF or
\* whose OPTARIF cannot be cut after three bytes.
C24_AbortsExactlyWhenLacking ==
    pc = "ok" =>
        LET PTEC == <<80, 84, 69, 67>>
            NTARF == <<78, 84, 65, 82, 70>>
            OPTARIF == <<79, 80, 84, 65, 82, 73, 70>>
            legacy == msg.mode = "Legacy"
        IN  /\ get_message_type(msg) \in {"Short", "Normal"}
            /\ get_meter_type(msg) \in {"MonoPhase", "TriPhase"}
            /\ get_current_index(msg).st = "Panic"
                  <=> IF legacy THEN PTEC \notin DOMAIN msg.values
                      ELSE NTARF \notin DOMAIN msg.values
            /\ get_billing_indices(msg).st = "Panic"
                  <=> (legacy /\ OPTARIF \notin DOMAIN msg.values)
            \* PTEC "HC.." gives "HCHC", PTEC "" gives "BASE"
            /\ legacy =>
                  /\ get_current_index(WithField(msg, PTEC, <<72, 67, 46, 46>>))
                         = Ok(<<>>, <<72, 67, 72, 67>>)
                  /\ get_current_index(WithField(msg, PTEC, <<>>))
                         = Ok(<<>>, <<66, 65, 83, 69>>)
            \* NTARF "02" gives "EASF02"
            /\ ~legacy =>
                  get_current_index(WithField(msg, NTARF, <<48, 50>>))
                      = Ok(<<>>, <<69, 65, 83, 70, 48, 50>>)
            \* OPTARIF "", "HC", "\u{e9}\u{e9}" (its third byte is inside a
            \* char) abort; "HC..", "BBRx" and "H\u{e9}" return
            /\ legacy =>
                  /\ \A v \in {<<>>, <<72, 67>>, <<233, 233>>} :
                        get_billing_indices(WithField(msg, OPTARIF, v)).st
                            = "Panic"
                  /\ get_billing_indices(
                         WithField(msg, OPTARIF, <<72, 67, 46, 46>>))
                         = Ok(<<>>, <<<<72, 67, 72, 67>>, <<72, 67, 72, 80>>>>)
                  /\ Len(get_billing_indices(
                         WithField(msg, OPTARIF, <<66, 66, 82, 120>>)).out) = 6
                  /\ get_billing_indices(
                         WithField(msg, OPTARIF, <<72, 233>>))
                         = Ok(<<>>, <<<<66, 65, 83, 69>>>>)
=============================================================================
